---------------------------- MODULE Spec2Model ----------------------------
(***************************************************************************)
(* Model of the challenge completion and scoring engine of the hunt site:  *)
(* hunt/apps/main/views.py (validate_flag), hunt/apps/main/models.py       *)
(* (Challenge, Class), hunt/apps/logging/utils.py and the invalidation     *)
(* entry points of hunt/apps/logging/views.py and admin.py.                *)
(*                                                                         *)
(* No request handler opens a transaction, so every ORM statement commits  *)
(* on its own: one action of the model is one database statement of a      *)
(* request (with the local computation that follows it), and the requests  *)
(* of different workers interleave between statements.                     *)
(*                                                                         *)
(* validate_flag unpacks the value of log_flag_submission into             *)
(* (submission, activity_log); log_flag_submission as found in utils.py    *)
(* returns the FlagSubmission row alone.  The model follows the reading    *)
(* of the caller: submission is the row just created, and the activity     *)
(* log (not part of the scoring state) is left out.                        *)
(*                                                                         *)
(* FlagSubmission.invalidated, invalidated_by and invalidated_at are       *)
(* modelled from the statements that write and query them                  *)
(* (logging/views.py, logging/admin.py); logging/models.py as found does   *)
(* not declare them.                                                       *)
(***************************************************************************)
EXTENDS Integers, Sequences, FiniteSets, TLC

----------------------------------------------------------------------------
(* Bounds of the model *)

\* number of validate_flag requests started in one behaviour
MaxSubmits == 2
\* number of invalidation requests started in one behaviour
MaxInvalidations == 1
\* largest base point value drawn for the scoring function
MaxBase == 20
\* largest cohort count evaluated for the documented 100-point example
MaxExampleN == 2
\* largest required_challenges_count drawn for the availability function
MaxRequiredCount == 3

----------------------------------------------------------------------------
(* Pure helpers *)

RECURSIVE Pow(_, _)
Pow(b, e) == IF e = 0 THEN 1 ELSE b * Pow(b, e - 1)

Max2(a, b) == IF a >= b THEN a ELSE b

\* Python's round() on the non-negative rational num/den: nearest integer,
\* ties to the even neighbour.
round(num, den) ==
    LET q == num \div den
        r == num % den
    IN  IF 2 * r > den THEN q + 1
        ELSE IF 2 * r < den THEN q
        ELSE IF q % 2 = 0 THEN q ELSE q + 1

\* str.strip() and str.lower() on a flag given as a sequence of characters
IsSpace(ch) == ch = " "

RECURSIVE lstrip(_)
lstrip(s) == IF s # << >> /\ IsSpace(Head(s)) THEN lstrip(Tail(s)) ELSE s

RECURSIVE rstrip(_)
rstrip(s) ==
    IF s # << >> /\ IsSpace(s[Len(s)]) THEN rstrip(SubSeq(s, 1, Len(s) - 1))
    ELSE s

strip(s) == rstrip(lstrip(s))

LowerChar(ch) ==
    CASE ch = "A" -> "a"
      [] ch = "B" -> "b"
      [] OTHER    -> ch

lower(s) == [i \in 1..Len(s) |-> LowerChar(s[i])]

\* the test without the trimming of the submitted text
is_correct_flag_NoStrip(submitted, canonical) ==
    lower(submitted) = lower(strip(canonical))

\* flag.strip().lower() == challenge.flag.strip().lower()
is_correct_flag(submitted, canonical) ==
    lower(strip(submitted)) = lower(strip(canonical))

----------------------------------------------------------------------------
(* Challenge.get_points_for_class and Challenge.is_available_for_class as   *)
(* functions of the fields and query results they read                     *)

ChallengeTypes == {"normal", "exclusive", "decreasing", "unlocking"}

\* the four class years of Class.YEAR_CHOICES
NumClassYears == 4

\* get_points_for_class with int() in place of round()
get_points_for_class_Truncating(challenge_type, points, decay_percentage, classes_completed) ==
    IF challenge_type # "decreasing" THEN points
    ELSE Max2(1, (points * Pow(100 - decay_percentage, classes_completed))
                     \div Pow(100, classes_completed))

\* get_points_for_class with decay_factor = (100 + decay_percentage) / 100
get_points_for_class_Growing(challenge_type, points, decay_percentage, classes_completed) ==
    IF challenge_type # "decreasing" THEN points
    ELSE Max2(1, round(points * Pow(100 + decay_percentage, classes_completed),
                       Pow(100, classes_completed)))

get_points_for_class(challenge_type, points, decay_percentage, classes_completed) ==
    IF challenge_type # "decreasing" THEN points
    ELSE Max2(1, round(points * Pow(100 - decay_percentage, classes_completed),
                       Pow(100, classes_completed)))

\* is_available_for_class without the "0 means all" case
is_available_for_class_ZeroIsZero(challenge_type, required_ids, required_count, completed_ids) ==
    IF challenge_type # "unlocking" THEN TRUE
    ELSE LET completed_required_count == Cardinality(required_ids \cap completed_ids)
             needed_count ==
                 IF required_count >= Cardinality(required_ids)
                 THEN Cardinality(required_ids)
                 ELSE required_count
         IN  completed_required_count >= needed_count

is_available_for_class(challenge_type, required_ids, required_count, completed_ids) ==
    IF challenge_type # "unlocking" THEN TRUE
    ELSE LET completed_required_count == Cardinality(required_ids \cap completed_ids)
             needed_count ==
                 IF required_count = 0 \/ required_count >= Cardinality(required_ids)
                 THEN Cardinality(required_ids)
                 ELSE required_count
         IN  completed_required_count >= needed_count


----------------------------------------------------------------------------
(* The hunt: participants, classes and the configured challenges *)

Users == {"u1", "u2", "u3"}
Classes == {"2026", "2027"}
Challenges == {"dec", "exc", "unl"}
Workers == {"w1", "w2"}

\* Challenge rows as configured by the administrator
challenge_type == [c \in Challenges |->
    CASE c = "dec" -> "decreasing" [] c = "exc" -> "exclusive" [] OTHER -> "unlocking"]
points == [c \in Challenges |->
    CASE c = "dec" -> 100 [] c = "exc" -> 50 [] OTHER -> 30]
decay_percentage == [c \in Challenges |-> IF c = "dec" THEN 20 ELSE 10]
exclusive == [c \in Challenges |-> FALSE]
required_challenges == [c \in Challenges |->
    IF c = "unl" THEN {"dec", "exc"} ELSE {}]
required_challenges_count == [c \in Challenges |-> IF c = "unl" THEN 1 ELSE 0]
flag == [c \in Challenges |-> <<"A", "b">>]

\* texts a participant may submit
SubmittedFlags == { <<"A", "b">>, <<" ", "a", "B", " ">>, <<"b">> }

is_exclusive(c) == exclusive[c] \/ challenge_type[c] = "exclusive"
is_decreasing(c) == challenge_type[c] = "decreasing"
is_unlocking(c) == challenge_type[c] = "unlocking"

VARIABLES
    graduation_year,      \* User.graduation_year
    challenges_done,      \* User.challenges_done (M2M)
    challenges_completed, \* Class.challenges_completed (M2M)
    locked,               \* Challenge.locked
    completions,          \* ChallengeCompletion rows
    submissions,          \* FlagSubmission rows, by id
    clock,                \* timezone.now() at the next insert
    req,                  \* the validate_flag request each worker is serving
    nsubmits,             \* validate_flag requests started so far
    inv,                  \* the invalidation request being served
    ninvalidations,       \* invalidation requests started so far
    probe                 \* a Challenge row under evaluation (SpecPoints,
                          \* SpecAvail); NoProbe while the engine runs

vars == <<graduation_year, challenges_done, challenges_completed, locked,
          completions, submissions, clock, req, nsubmits, inv, ninvalidations,
          probe>>

engine_vars == <<graduation_year, challenges_done, challenges_completed,
                 locked, completions, submissions, clock, req, nsubmits, inv,
                 ninvalidations>>

NoProbe == [kind |-> "none"]

\* The id of a FlagSubmission row is opaque (an AutoField); the model names
\* the row by its participant, its challenge and the rank of the attempt
\* among that participant's attempts at that challenge.
NoSubmission == <<"u1", "dec", 0>>
\* an id no row ever has
UnknownSubmission == <<"u1", "dec", MaxSubmits + 1>>

\* completion is the id of the ChallengeCompletion row the completions admin
\* action works on (rows are named by their timestamp; 0 is no row)
IdleInv == [pc |-> "idle", submission |-> NoSubmission, completion |-> 0,
            deleted |-> FALSE,
            user |-> "u1", challenge |-> "dec", class_year |-> "2026",
            locked |-> FALSE, result |-> "none"]

IdleReq == [pc |-> "idle", user |-> "u1", challenge |-> "dec",
            class_year |-> "2026", is_correct |-> FALSE, locked |-> FALSE,
            submission |-> NoSubmission, first_for_class |-> FALSE,
            points_awarded |-> 0, result |-> "none", notified |-> FALSE]

\* ChallengeCompletion.objects.filter(challenge=c, class_year=y)
ClassCompletions(c, y) ==
    {r \in completions : r.challenge = c /\ r.class_year = y}

\* ChallengeCompletion.objects.filter(user=u, challenge=c)
UserCompletions(u, c) ==
    {r \in completions : r.user = u /\ r.challenge = c}

\* Challenge._completed_classes_count
completed_classes_count(c) ==
    Cardinality({r.class_year : r \in
        {x \in completions : x.challenge = c /\ x.first_completion_for_class}})

\* Challenge.get_current_points
get_current_points(c) ==
    get_points_for_class(challenge_type[c], points[c], decay_percentage[c],
                         completed_classes_count(c))

RECURSIVE SumPoints(_)
SumPoints(rows) ==
    IF rows = {} THEN 0
    ELSE LET r == CHOOSE x \in rows : TRUE
         IN  r.points_earned + SumPoints(rows \ {r})

\* Class.get_points
get_points(y) == SumPoints({r \in completions : r.class_year = y})

InitEngine ==
    /\ graduation_year = [u \in Users |-> IF u = "u3" THEN "2027" ELSE "2026"]
    /\ challenges_done = [u \in Users |-> {}]
    /\ challenges_completed = [y \in Classes |-> {}]
    /\ locked = [c \in Challenges |-> FALSE]
    /\ completions = {}
    /\ submissions = << >>
    /\ clock = 1
    /\ req = [w \in Workers |-> IdleReq]
    /\ nsubmits = 0
    /\ inv = IdleInv
    /\ ninvalidations = 0

Init == InitEngine /\ probe = NoProbe

----------------------------------------------------------------------------
(* validate_flag, one database statement at a time *)

\* the JsonResponse {"result": ..., "points": ...} returned for request r;
\* the request's locals are gone with it
Response(r, result, pts) ==
    [IdleReq EXCEPT !.pc = "done", !.user = r.user, !.challenge = r.challenge,
                    !.result = result, !.points_awarded = pts]

\* Graded without the challenge.locked test
Graded_IgnoresLock(r) ==
    IF ~r.is_correct
    THEN Response(r, "failure", 0)
    ELSE IF is_unlocking(r.challenge)
    THEN [r EXCEPT !.pc = "gate"]
    ELSE [r EXCEPT !.pc = "chk_user"]

\* the request as it stands once is_correct is known: an incorrect text is
\* answered "failure"; a correct one for a locked challenge falls to the
\* "locked or prerequisites not met" branch (0 points re-saved on the
\* submission, which already carries 0); an unlocking challenge has its
\* prerequisites looked up next; any other goes on to the completion checks
Graded(r) ==
    IF ~r.is_correct
    THEN Response(r, "failure", 0)
    ELSE IF r.locked
    THEN Response(r, "success", 0)
    ELSE IF is_unlocking(r.challenge)
    THEN [r EXCEPT !.pc = "gate"]
    ELSE [r EXCEPT !.pc = "chk_user"]

\* the id FlagSubmission.objects.create gives the next row of (u, c)
NextSubmissionId(u, c) ==
    <<u, c, Cardinality({id \in DOMAIN submissions :
                            id[1] = u /\ id[2] = c}) + 1>>

Busy(w) == req[w].pc \notin {"idle", "done"}

\* the workers are interchangeable: a request goes to the first free one
FreeWorker ==
    IF ~Busy("w1") THEN "w1" ELSE IF ~Busy("w2") THEN "w2" ELSE "none"

\* the request arrives: load the Challenge row, grade the text and log the
\* FlagSubmission with 0 points.  (The hunt is active and the challenge is
\* released; the other requests are answered before anything is logged.)
Begin(w, u, c, text) ==
    /\ w = FreeWorker
    /\ nsubmits < MaxSubmits
    /\ nsubmits' = nsubmits + 1
    /\ submissions' = submissions @@ (NextSubmissionId(u, c) :>
            [user |-> u, challenge |-> c,
             is_correct |-> is_correct_flag(text, flag[c]),
             points_awarded |-> 0, invalidated |-> FALSE,
             invalidated_by |-> "none", invalidated_at |-> 0])
    /\ req' = [req EXCEPT ![w] = Graded([IdleReq EXCEPT
            !.user = u, !.challenge = c,
            !.class_year = graduation_year[u],
            !.is_correct = is_correct_flag(text, flag[c]),
            !.locked = locked[c],
            !.submission = NextSubmissionId(u, c)])]
    /\ UNCHANGED <<probe, graduation_year, challenges_done, challenges_completed,
                   locked, completions, clock, inv, ninvalidations>>

\* challenge.is_available_for_class(request.user.graduation_year), which
\* reads Class.challenges_completed
Gate(w) ==
    LET r == req[w] IN
    /\ r.pc = "gate"
    /\ IF is_available_for_class(challenge_type[r.challenge],
                    required_challenges[r.challenge],
                    required_challenges_count[r.challenge],
                    challenges_completed[r.class_year])
       THEN req' = [req EXCEPT ![w].pc = "chk_user"]
       ELSE req' = [req EXCEPT ![w] = Response(r, "success", 0)]
    /\ UNCHANGED <<probe, graduation_year, challenges_done, challenges_completed,
                   locked, completions, submissions, clock, nsubmits, inv, ninvalidations>>

\* validate_flag without the user_already_completed branch
ChkUser_NoCheck(w) ==
    /\ req[w].pc = "chk_user"
    /\ req' = [req EXCEPT ![w].pc = "chk_class"]
    /\ UNCHANGED <<probe, graduation_year, challenges_done,
                   challenges_completed, locked, completions, submissions,
                   clock, nsubmits, inv, ninvalidations>>

\* user_already_completed = request.user.challenges_done.filter(...).exists()
ChkUser(w) ==
    LET r == req[w] IN
    /\ r.pc = "chk_user"
    /\ IF r.challenge \in challenges_done[r.user]
       THEN req' = [req EXCEPT ![w] = Response(r, "success", 0)]
       ELSE req' = [req EXCEPT ![w].pc = "chk_class"]
    /\ UNCHANGED <<probe, graduation_year, challenges_done, challenges_completed,
                   locked, completions, submissions, clock, nsubmits, inv, ninvalidations>>

\* class_already_has_completion = ChallengeCompletion.objects.filter(
\*     challenge=challenge, class_year=...).exists(); first_for_class is its
\* negation.  A challenge that is not decreasing takes base_points from the
\* row already loaded, so its points_awarded is known here.
ChkClass(w) ==
    LET r == req[w]
        first == ClassCompletions(r.challenge, r.class_year) = {}
    IN
    /\ r.pc = "chk_class"
    /\ IF is_decreasing(r.challenge)
       THEN req' = [req EXCEPT ![w].pc = "points",
                               ![w].first_for_class = first]
       ELSE req' = [req EXCEPT ![w].pc = "save_sub",
                               ![w].first_for_class = first,
                               ![w].points_awarded =
                                   IF first THEN points[r.challenge] ELSE 0]
    /\ UNCHANGED <<probe, graduation_year, challenges_done, challenges_completed,
                   locked, completions, submissions, clock, nsubmits, inv, ninvalidations>>

\* base_points = challenge.get_current_points() for a decreasing challenge;
\* points_awarded = base_points if first_for_class else 0
Points(w) ==
    LET r == req[w] IN
    /\ r.pc = "points"
    /\ req' = [req EXCEPT ![w].pc = "save_sub",
                  ![w].points_awarded =
                      IF r.first_for_class
                      THEN get_current_points(r.challenge) ELSE 0]
    /\ UNCHANGED <<probe, graduation_year, challenges_done, challenges_completed,
                   locked, completions, submissions, clock, nsubmits, inv, ninvalidations>>

\* submission.points_awarded = points_awarded; submission.save(), which
\* writes every field of the row as this request holds it
SaveSub(w) ==
    LET r == req[w] IN
    /\ r.pc = "save_sub"
    /\ submissions' = [submissions EXCEPT ![r.submission] =
            [user |-> r.user, challenge |-> r.challenge,
             is_correct |-> r.is_correct,
             points_awarded |-> r.points_awarded, invalidated |-> FALSE,
             invalidated_by |-> "none", invalidated_at |-> 0]]
    /\ req' = [req EXCEPT ![w].pc = "add_user"]
    /\ UNCHANGED <<probe, graduation_year, challenges_done, challenges_completed,
                   locked, completions, clock, nsubmits, inv, ninvalidations>>

\* request.user.challenges_done.add(challenge)
AddUser(w) ==
    LET r == req[w] IN
    /\ r.pc = "add_user"
    /\ challenges_done' = [challenges_done EXCEPT
            ![r.user] = @ \cup {r.challenge}]
    /\ req' = [req EXCEPT ![w].pc = "add_class"]
    /\ UNCHANGED <<probe, graduation_year, challenges_completed, locked,
                   completions, submissions, clock, nsubmits, inv, ninvalidations>>

\* hoco_class.challenges_completed.add(challenge); hoco_class.save()
AddClass(w) ==
    LET r == req[w] IN
    /\ r.pc = "add_class"
    /\ challenges_completed' = [challenges_completed EXCEPT
            ![r.class_year] = @ \cup {r.challenge}]
    /\ req' = [req EXCEPT ![w].pc =
            IF is_exclusive(r.challenge) THEN "lock" ELSE "insert"]
    /\ UNCHANGED <<probe, graduation_year, challenges_done, locked, completions,
                   submissions, clock, nsubmits, inv, ninvalidations>>

\* if challenge.is_exclusive: challenge.locked = True; challenge.save()
Lock(w) ==
    LET r == req[w] IN
    /\ r.pc = "lock"
    /\ locked' = [locked EXCEPT ![r.challenge] = TRUE]
    /\ req' = [req EXCEPT ![w].pc = "insert"]
    /\ UNCHANGED <<probe, graduation_year, challenges_done, challenges_completed,
                   completions, submissions, clock, nsubmits, inv, ninvalidations>>


\* what the webhook call of send_first_blood_notification can come to:
\* notifications switched off or no URL configured (no call is made), status
\* 204, another status, an exception of requests.post, no answer within
\* the timeout of 3 seconds (requests raises Timeout)
NotificationOutcomes ==
    {"disabled", "sent", "error_status", "exception", "timeout"}

\* requests.post raises on this outcome
post_raises(outcome) == outcome \in {"exception", "timeout"}

\* send_first_blood_notification whose exceptions reach validate_flag
send_first_blood_notification_Propagates(r, outcome) ==
    IF post_raises(outcome)
    THEN [Response(r, "error", 0) EXCEPT !.notified = TRUE]
    ELSE [Response(r, "success", r.points_awarded) EXCEPT !.notified = TRUE]

\* the answer to request r once send_first_blood_notification, called for
\* its first solve, has come to outcome.  The function returns nothing, logs
\* every outcome, catches every exception of the webhook call itself and
\* is called inside a second try/except; log_challenge_completion then
\* returns the completion and validate_flag answers.  notified tells that
\* the notification was attempted in the request.
send_first_blood_notification(r, outcome) ==
    [Response(r, "success", r.points_awarded) EXCEPT !.notified = TRUE]

\* log_challenge_completion on a table without the unique_together constraint
log_challenge_completion_NoConstraint(w) ==
    LET r == req[w] IN
    /\ r.pc = "insert"
    /\ completions' = completions \cup
            {[user |-> r.user, challenge |-> r.challenge,
              class_year |-> r.class_year,
              points_earned |-> r.points_awarded,
              first_completion_for_class |-> r.first_for_class,
              timestamp |-> clock]}
    /\ clock' = clock + 1
    /\ req' = [req EXCEPT ![w] = Response(r, "success", r.points_awarded)]
    /\ UNCHANGED <<probe, graduation_year, challenges_done,
                   challenges_completed, locked, submissions, nsubmits, inv,
                   ninvalidations>>

\* log_challenge_completion: ChallengeCompletion.objects.create(...).  The
\* unique_together (user, challenge) constraint makes the insert raise
\* IntegrityError when the participant already has a row; the except branch
\* returns None and validate_flag goes on to its get_or_create fallback.
\* After the insert of a first solve the webhook is called, and the request
\* is answered.
log_challenge_completion(w) ==
    LET r == req[w] IN
    /\ r.pc = "insert"
    /\ IF UserCompletions(r.user, r.challenge) = {}
       THEN /\ completions' = completions \cup
                   {[user |-> r.user, challenge |-> r.challenge,
                     class_year |-> r.class_year,
                     points_earned |-> r.points_awarded,
                     first_completion_for_class |-> r.first_for_class,
                     timestamp |-> clock]}
            /\ clock' = clock + 1
            /\ IF r.first_for_class
               THEN \E outcome \in NotificationOutcomes :
                        req' = [req EXCEPT ![w] =
                            send_first_blood_notification(r, outcome)]
               ELSE req' = [req EXCEPT ![w] =
                        Response(r, "success", r.points_awarded)]
       ELSE /\ req' = [req EXCEPT ![w].pc = "fallback"]
            /\ UNCHANGED <<completions, clock>>
    /\ UNCHANGED <<probe, graduation_year, challenges_done, challenges_completed,
                   locked, submissions, nsubmits, inv, ninvalidations>>

\* if completion is None: get_or_create(user, challenge, defaults=...), then
\* overwrite class_year, points_earned and first_completion_for_class of the
\* row found when they differ from this request's values
Fallback(w) ==
    LET r == req[w]
        found == UserCompletions(r.user, r.challenge)
    IN
    /\ r.pc = "fallback"
    /\ IF found = {}
       THEN /\ completions' = completions \cup
                   {[user |-> r.user, challenge |-> r.challenge,
                     class_year |-> r.class_year,
                     points_earned |-> r.points_awarded,
                     first_completion_for_class |-> r.first_for_class,
                     timestamp |-> clock]}
            /\ clock' = clock + 1
       ELSE /\ completions' = (completions \ found) \cup
                   {[x EXCEPT !.class_year = r.class_year,
                              !.points_earned = r.points_awarded,
                              !.first_completion_for_class = r.first_for_class]
                       : x \in found}
            /\ UNCHANGED clock
    /\ req' = [req EXCEPT ![w] = Response(r, "success", r.points_awarded)]
    /\ UNCHANGED <<probe, graduation_year, challenges_done, challenges_completed,
                   locked, submissions, nsubmits, inv, ninvalidations>>

\* a database statement of the award sequence raises (the database refuses
\* it: OperationalError and the like).  validate_flag has no try/except and
\* no transaction around the sequence: the exception leaves the view, Django
\* answers with an error, and the statements that ran stay committed.  An
\* exception of ChallengeCompletion.objects.create is caught inside
\* log_challenge_completion, which returns None, and validate_flag goes on
\* to its get_or_create fallback.
Raise(w) ==
    LET r == req[w] IN
    /\ r.pc \in {"save_sub", "add_user", "add_class", "lock", "insert",
                 "fallback"}
    /\ req' = [req EXCEPT ![w] =
           IF r.pc = "insert"
           THEN [r EXCEPT !.pc = "fallback"]
           ELSE Response(r, "error", 0)]
    /\ UNCHANGED <<probe, graduation_year, challenges_done, challenges_completed,
                   locked, completions, submissions, clock, nsubmits, inv,
                   ninvalidations>>

\* the statements of validate_flag every accepted submission runs
Award(w) ==
    \/ ChkUser(w)
    \/ ChkClass(w)
    \/ SaveSub(w)
    \/ AddUser(w)
    \/ AddClass(w)
    \/ log_challenge_completion(w)
    \/ Fallback(w)

\* requests by the participants US for the challenges CS
Submit(US, CS) ==
    \E w \in Workers, u \in US, c \in CS, text \in SubmittedFlags :
        Begin(w, u, c, text)

\* requests by the participants US for the challenges CS that carry the
\* challenge's flag
SubmitFlag(US, CS) ==
    \E w \in Workers, u \in US, c \in CS : Begin(w, u, c, flag[c])

----------------------------------------------------------------------------
(* invalidate_submission (logging/views.py), one database statement at a   *)
(* time                                                                    *)

\* InvBegin without the test of is_correct and points_awarded
InvBegin_NoValidCheck(id) ==
    /\ inv.pc \in {"idle", "done"}
    /\ IF id \notin DOMAIN submissions
       THEN inv' = [IdleInv EXCEPT !.pc = "done", !.result = "not_found"]
       ELSE inv' = [pc |-> "rm_user", submission |-> id, completion |-> 0,
                    deleted |-> FALSE,
                    user |-> submissions[id].user,
                    challenge |-> submissions[id].challenge,
                    class_year |-> graduation_year[submissions[id].user],
                    locked |-> locked[submissions[id].challenge],
                    result |-> "none"]
    /\ UNCHANGED <<probe, graduation_year, challenges_done, challenges_completed,
                   locked, completions, submissions, clock, req, nsubmits>>

\* FlagSubmission.objects.get(id=submission_id); a missing row is answered
\* 404, a row that is incorrect or carries 0 points is answered 400.  The
\* user and challenge rows are loaded here, when the details are collected.
InvBegin(id) ==
    /\ inv.pc \in {"idle", "done"}
    /\ IF id \notin DOMAIN submissions
       THEN inv' = [IdleInv EXCEPT !.pc = "done", !.result = "not_found"]
       ELSE IF ~submissions[id].is_correct \/ submissions[id].points_awarded = 0
       THEN inv' = [IdleInv EXCEPT !.pc = "done", !.submission = id,
                                   !.result = "not_valid"]
       ELSE inv' = [pc |-> "rm_user", submission |-> id, completion |-> 0,
                    deleted |-> FALSE,
                    user |-> submissions[id].user,
                    challenge |-> submissions[id].challenge,
                    class_year |-> graduation_year[submissions[id].user],
                    locked |-> locked[submissions[id].challenge],
                    result |-> "none"]
    /\ UNCHANGED <<probe, graduation_year, challenges_done, challenges_completed,
                   locked, completions, submissions, clock, req, nsubmits>>

\* 1. user.challenges_done.remove(challenge)
InvRemoveUser ==
    /\ inv.pc = "rm_user"
    /\ challenges_done' = [challenges_done EXCEPT
            ![inv.user] = @ \ {inv.challenge}]
    /\ inv' = [inv EXCEPT !.pc = "delete"]
    /\ UNCHANGED <<probe, graduation_year, challenges_completed, locked, completions,
                   submissions, clock, req, nsubmits, ninvalidations>>

\* 2. ChallengeCompletion.objects.get(user=user, challenge=challenge)
\*    .delete(), DoesNotExist ignored; deleted tells which branch was taken
InvDelete ==
    /\ inv.pc = "delete"
    /\ completions' = completions \ UserCompletions(inv.user, inv.challenge)
    /\ inv' = [inv EXCEPT !.pc = "chk_class",
                          !.deleted = UserCompletions(inv.user,
                                                      inv.challenge) # {}]
    /\ UNCHANGED <<probe, graduation_year, challenges_done, challenges_completed,
                   locked, submissions, clock, req, nsubmits, ninvalidations>>

\* 3. other_class_completions = ChallengeCompletion.objects.filter(
\*    challenge=challenge, class_year=class_year).exists()
InvChkClass ==
    /\ inv.pc = "chk_class"
    /\ inv' = [inv EXCEPT !.pc =
            IF ClassCompletions(inv.challenge, inv.class_year) # {}
            THEN "mark" ELSE "rm_class"]
    /\ UNCHANGED <<probe, graduation_year, challenges_done, challenges_completed,
                   locked, completions, submissions, clock, req, nsubmits,
                   ninvalidations>>

\* class_obj.challenges_completed.remove(challenge)
InvRemoveClass ==
    /\ inv.pc = "rm_class"
    /\ challenges_completed' = [challenges_completed EXCEPT
            ![inv.class_year] = @ \ {inv.challenge}]
    /\ inv' = [inv EXCEPT !.pc =
            IF is_exclusive(inv.challenge) /\ inv.locked
            THEN "unlock" ELSE "mark"]
    /\ UNCHANGED <<probe, graduation_year, challenges_done, locked, completions,
                   submissions, clock, req, nsubmits, ninvalidations>>

\* challenge.locked = False; challenge.save()
InvUnlock ==
    /\ inv.pc = "unlock"
    /\ locked' = [locked EXCEPT ![inv.challenge] = FALSE]
    /\ inv' = [inv EXCEPT !.pc = "mark"]
    /\ UNCHANGED <<probe, graduation_year, challenges_done, challenges_completed,
                   completions, submissions, clock, req, nsubmits,
                   ninvalidations>>

\* 4. submission.invalidated = True, invalidated_by = request.user,
\*    invalidated_at = timezone.now(), points_awarded = 0; submission.save()
\*    (of the time only that it was recorded is kept: 0 is null, 1 is set)
InvMark ==
    /\ inv.pc = "mark"
    /\ submissions' = [submissions EXCEPT
            ![inv.submission].points_awarded = 0,
            ![inv.submission].invalidated = TRUE,
            ![inv.submission].invalidated_by = "staff",
            ![inv.submission].invalidated_at = 1]
    /\ inv' = [IdleInv EXCEPT !.pc = "done", !.submission = inv.submission,
                              !.user = inv.user, !.challenge = inv.challenge,
                              !.result = "success"]
    /\ UNCHANGED <<probe, graduation_year, challenges_done, challenges_completed,
                   locked, completions, clock, req, nsubmits, ninvalidations>>

\* the statements every invalidation runs
Reverse ==
    \/ InvRemoveUser
    \/ InvDelete
    \/ InvChkClass
    \/ InvRemoveClass
    \/ InvMark

\* a request to invalidate a row of the log, or a row that does not exist
Invalidate ==
    /\ ninvalidations < MaxInvalidations
    /\ ninvalidations' = ninvalidations + 1
    /\ \E id \in DOMAIN submissions \cup {UnknownSubmission} : InvBegin(id)

\* the administrator sends the request again for the submission that was
\* just invalidated
InvalidateAgain ==
    /\ inv.pc = "done"
    /\ inv.result = "success"
    /\ inv.completion = 0
    /\ InvBegin(inv.submission)
    /\ UNCHANGED ninvalidations

----------------------------------------------------------------------------
(* The admin actions of logging/admin.py.  An action runs over the rows the *)
(* administrator selected; the model runs it on one selected row.          *)

\* FlagSubmissionAdmin.invalidate_submissions on the row id: a row that is
\* not correct or carries 0 points is passed over (the action reports that
\* 0 submissions were invalidated); any other row goes through the
\* statements of invalidate_submission, with the admin log written before
\* the row is marked
invalidate_submissions(id) ==
    /\ inv.pc \in {"idle", "done"}
    /\ ninvalidations < MaxInvalidations
    /\ ninvalidations' = ninvalidations + 1
    /\ IF ~(submissions[id].is_correct /\ submissions[id].points_awarded > 0)
       THEN inv' = [IdleInv EXCEPT !.pc = "done", !.submission = id,
                                   !.result = "none_invalidated"]
       ELSE inv' = [pc |-> "rm_user", submission |-> id, completion |-> 0,
                    deleted |-> FALSE,
                    user |-> submissions[id].user,
                    challenge |-> submissions[id].challenge,
                    class_year |-> graduation_year[submissions[id].user],
                    locked |-> locked[submissions[id].challenge],
                    result |-> "none"]
    /\ UNCHANGED <<probe, graduation_year, challenges_done, challenges_completed,
                   locked, completions, submissions, clock, req, nsubmits>>

\* ChallengeCompletionAdmin.invalidate_completions on the row r:
\* completion.user.challenges_done.remove(completion.challenge)
invalidate_completions(r) ==
    /\ inv.pc \in {"idle", "done"}
    /\ ninvalidations < MaxInvalidations
    /\ ninvalidations' = ninvalidations + 1
    /\ challenges_done' = [challenges_done EXCEPT
            ![r.user] = @ \ {r.challenge}]
    /\ inv' = [pc |-> "c_chk_class", submission |-> NoSubmission,
                deleted |-> FALSE,
               completion |-> r.timestamp, user |-> r.user,
               challenge |-> r.challenge, class_year |-> r.class_year,
               locked |-> locked[r.challenge], result |-> "none"]
    /\ UNCHANGED <<probe, graduation_year, challenges_completed, locked,
                   completions, submissions, clock, req, nsubmits>>

\* other_completions = ChallengeCompletion.objects.filter(challenge=...,
\*     class_year=completion.class_year).exclude(id=completion.id).exists()
CompChkClass ==
    /\ inv.pc = "c_chk_class"
    /\ inv' = [inv EXCEPT !.pc =
            IF \E x \in ClassCompletions(inv.challenge, inv.class_year) :
                   x.timestamp # inv.completion
            THEN "c_zero" ELSE "c_rm_class"]
    /\ UNCHANGED <<probe, graduation_year, challenges_done, challenges_completed,
                   locked, completions, submissions, clock, req, nsubmits,
                   ninvalidations>>

\* class_obj.challenges_completed.remove(completion.challenge)
CompRemoveClass ==
    /\ inv.pc = "c_rm_class"
    /\ challenges_completed' = [challenges_completed EXCEPT
            ![inv.class_year] = @ \ {inv.challenge}]
    /\ inv' = [inv EXCEPT !.pc =
            IF is_exclusive(inv.challenge) THEN "c_unlock" ELSE "c_zero"]
    /\ UNCHANGED <<probe, graduation_year, challenges_done, locked, completions,
                   submissions, clock, req, nsubmits, ninvalidations>>

\* if completion.challenge.is_exclusive: locked = False; save()
CompUnlock ==
    /\ inv.pc = "c_unlock"
    /\ locked' = [locked EXCEPT ![inv.challenge] = FALSE]
    /\ inv' = [inv EXCEPT !.pc = "c_zero"]
    /\ UNCHANGED <<probe, graduation_year, challenges_done, challenges_completed,
                   completions, submissions, clock, req, nsubmits,
                   ninvalidations>>

\* FlagSubmission.objects.filter(user=..., challenge=..., is_correct=True)
\*     .update(points_awarded=0)
CompZero ==
    /\ inv.pc = "c_zero"
    /\ submissions' = [id \in DOMAIN submissions |->
            IF /\ submissions[id].user = inv.user
               /\ submissions[id].challenge = inv.challenge
               /\ submissions[id].is_correct
            THEN [submissions[id] EXCEPT !.points_awarded = 0]
            ELSE submissions[id]]
    /\ inv' = [inv EXCEPT !.pc = "c_delete"]
    /\ UNCHANGED <<probe, graduation_year, challenges_done, challenges_completed,
                   locked, completions, clock, req, nsubmits, ninvalidations>>

\* completion.delete(): the row with this id, if it is still there
CompDelete ==
    /\ inv.pc = "c_delete"
    /\ completions' = completions \
            {x \in UserCompletions(inv.user, inv.challenge) :
                x.timestamp = inv.completion}
    /\ inv' = [IdleInv EXCEPT !.pc = "done", !.completion = inv.completion,
                              !.user = inv.user, !.challenge = inv.challenge,
                              !.result = "success"]
    /\ UNCHANGED <<probe, graduation_year, challenges_done, challenges_completed,
                   locked, submissions, clock, req, nsubmits, ninvalidations>>

\* the statements of invalidate_completions after its first
ReverseCompletion ==
    \/ CompChkClass
    \/ CompRemoveClass
    \/ CompZero
    \/ CompDelete

\* the administrator runs one of the two admin actions on a row
AdminAction ==
    \/ \E id \in DOMAIN submissions : invalidate_submissions(id)
    \/ \E r \in completions : invalidate_completions(r)

\* a statement of an invalidation raises (the database refuses the write,
\* or the Class row is missing): invalidate_submission answers 500 from its
\* except clause, an admin action lets the exception reach the framework.
\* Every statement committed on its own, so what ran before stays.
InvRaise ==
    /\ inv.pc \notin {"idle", "done"}
    /\ inv' = [IdleInv EXCEPT !.pc = "done", !.submission = inv.submission,
                              !.completion = inv.completion,
                              !.user = inv.user, !.challenge = inv.challenge,
                              !.result = "error"]
    /\ UNCHANGED <<probe, graduation_year, challenges_done, challenges_completed,
                   locked, completions, submissions, clock, req, nsubmits,
                   ninvalidations>>

----------------------------------------------------------------------------
(* Specifications *)

\* every participant, every challenge
Next ==
    \/ Submit(Users, Challenges)
    \/ \E w \in Workers : Award(w) \/ Gate(w) \/ Points(w) \/ Lock(w)
    \/ Invalidate
    \/ Reverse
    \/ InvUnlock
    \/ InvalidateAgain
    \/ AdminAction
    \/ ReverseCompletion
    \/ CompUnlock
    \/ InvRaise
    \/ \E w \in Workers : Raise(w)

Spec == Init /\ [][Next]_vars

\* the decreasing challenge alone
NextDec ==
    \/ Submit(Users, {"dec"})
    \/ \E w \in Workers : Award(w) \/ Points(w)
    \/ Invalidate
    \/ Reverse

SpecDec == Init /\ [][NextDec]_vars

\* the decreasing challenge and one participant of each class
NextPair ==
    \/ Submit({"u1", "u3"}, {"dec"})
    \/ \E w \in Workers : Award(w) \/ Points(w)
    \/ Invalidate
    \/ Reverse
    \/ InvalidateAgain

SpecPair == Init /\ [][NextPair]_vars

\* the exclusive challenge, one participant of each class, correct flags,
\* and statements that raise
NextFail ==
    \/ SubmitFlag({"u1", "u3"}, {"exc"})
    \/ \E w \in Workers : Award(w) \/ Lock(w) \/ Raise(w)

SpecFail == Init /\ [][NextFail]_vars

\* the decreasing challenge and two participants of one class, correct flags
NextMates ==
    \/ SubmitFlag({"u1", "u2"}, {"dec"})
    \/ \E w \in Workers : Award(w) \/ Points(w)
    \/ Invalidate
    \/ Reverse

SpecMates == Init /\ [][NextMates]_vars

\* u2 has solved the decreasing challenge as the first of class 2026 and
\* nothing is in progress (the state SpecMates reaches when u2 submits the
\* flag alone)
InitClassmateSolved ==
    /\ graduation_year = [u \in Users |-> IF u = "u3" THEN "2027" ELSE "2026"]
    /\ challenges_done = [u \in Users |-> IF u = "u2" THEN {"dec"} ELSE {}]
    /\ challenges_completed =
           [y \in Classes |-> IF y = "2026" THEN {"dec"} ELSE {}]
    /\ locked = [c \in Challenges |-> FALSE]
    /\ completions = {[user |-> "u2", challenge |-> "dec",
                       class_year |-> "2026", points_earned |-> points["dec"],
                       first_completion_for_class |-> TRUE, timestamp |-> 1]}
    /\ submissions = (<<"u2", "dec", 1>> :>
           [user |-> "u2", challenge |-> "dec", is_correct |-> TRUE,
            points_awarded |-> points["dec"], invalidated |-> FALSE,
            invalidated_by |-> "none", invalidated_at |-> 0])
    /\ clock = 2
    /\ req = [w \in Workers |-> IdleReq]
    /\ nsubmits = 0
    /\ inv = IdleInv
    /\ ninvalidations = 0
    /\ probe = NoProbe

\* a classmate of the first solver submits the flag, also twice at a time,
\* while the administrator invalidates completion rows
NextLater ==
    \/ SubmitFlag({"u1"}, {"dec"})
    \/ \E w \in Workers : Award(w) \/ Points(w)
    \/ \E r \in completions : invalidate_completions(r)
    \/ ReverseCompletion

SpecLater == InitClassmateSolved /\ [][NextLater]_vars

\* the exclusive challenge alone
NextExc ==
    \/ Submit(Users, {"exc"})
    \/ \E w \in Workers : Award(w) \/ Lock(w)
    \/ Invalidate
    \/ InvalidateAgain
    \/ Reverse
    \/ InvUnlock

SpecExc == Init /\ [][NextExc]_vars

\* the two gated challenges, one participant of each class, correct flags
NextGate ==
    \/ SubmitFlag({"u1", "u3"}, {"exc", "unl"})
    \/ \E w \in Workers : Award(w) \/ Gate(w) \/ Lock(w)
    \/ Invalidate
    \/ Reverse
    \/ InvUnlock

SpecGate == Init /\ [][NextGate]_vars

\* the three invalidation entry points and their failures, after correct
\* submissions: two participants of one class on the decreasing challenge,
\* one of the other class on the exclusive challenge
NextInv ==
    \/ SubmitFlag({"u1", "u2"}, {"dec"})
    \/ SubmitFlag({"u3"}, {"exc"})
    \/ \E w \in Workers : Award(w) \/ Points(w) \/ Lock(w)
    \/ Invalidate
    \/ Reverse
    \/ InvUnlock
    \/ InvalidateAgain
    \/ AdminAction
    \/ ReverseCompletion
    \/ CompUnlock
    \/ InvRaise

SpecInv == Init /\ [][NextInv]_vars

----------------------------------------------------------------------------
(* The scoring function on its own: a challenge row of any type, base value *)
(* and decay, solved by one class after another.  The base values are      *)
(* 1..MaxBase, and 100 with a decay of 20 (the documented example).        *)

InitPoints ==
    /\ InitEngine
    /\ \E t \in ChallengeTypes, b \in 1..MaxBase \cup {100}, d \in 1..99 :
         /\ b = 100 => d = 20
         /\ probe = [kind |-> "points", challenge_type |-> t, points |-> b,
                     decay_percentage |-> d, classes_completed |-> 0,
                     current_points |-> get_points_for_class(t, b, d, 0)]

\* one more class holds a first completion; get_current_points is read again
ClassCompletes ==
    /\ probe.kind = "points"
    /\ probe.classes_completed <
           (IF probe.points = 100 THEN MaxExampleN ELSE NumClassYears)
    /\ probe' = [probe EXCEPT
            !.classes_completed = @ + 1,
            !.current_points = get_points_for_class(probe.challenge_type,
                 probe.points, probe.decay_percentage,
                 probe.classes_completed + 1)]
    /\ UNCHANGED engine_vars

SpecPoints == InitPoints /\ [][ClassCompletes]_vars

----------------------------------------------------------------------------
(* The availability function on its own: a challenge row with any           *)
(* prerequisites and required count, and a class that completes challenges *)

Prerequisites == {"A", "B", "C"}
OtherChallenges == {"D"}

InitAvail ==
    /\ InitEngine
    /\ \E t \in ChallengeTypes, req_ids \in SUBSET Prerequisites,
          m \in 0..MaxRequiredCount :
         probe = [kind |-> "avail", challenge_type |-> t,
                  required_challenges |-> req_ids,
                  required_challenges_count |-> m,
                  challenges_completed |-> {},
                  available |-> is_available_for_class(t, req_ids, m, {})]

\* the class completes challenge c; is_available_for_class is read again
ClassSolves(c) ==
    /\ probe.kind = "avail"
    /\ c \notin probe.challenges_completed
    /\ probe' = [probe EXCEPT
            !.challenges_completed = @ \cup {c},
            !.available = is_available_for_class(probe.challenge_type,
                 probe.required_challenges, probe.required_challenges_count,
                 probe.challenges_completed \cup {c})]
    /\ UNCHANGED engine_vars

NextAvail == \E c \in Prerequisites \cup OtherChallenges : ClassSolves(c)

SpecAvail == InitAvail /\ [][NextAvail]_vars

----------------------------------------------------------------------------
(* Properties of the completion ledger *)

\* C1: in every reachable state there is at most one ChallengeCompletion row
\* per (participant, challenge), whatever the interleaving of submissions
\* (two of the same participant for the same challenge included) and
\* invalidations.
C1_OneCompletionPerUserChallenge ==
    \A r1, r2 \in completions :
        (r1.user = r2.user /\ r1.challenge = r2.challenge) => r1 = r2

\* a second insert for the same (participant, challenge) has hit the
\* constraint and the request is about to run its fallback
C1_Witness ==
    \E w \in Workers :
        /\ req[w].pc = "fallback"
        /\ UserCompletions(req[w].user, req[w].challenge) # {}

\* the rows of challenge c held by class y / by anyone
FirstRows(c, y) == {r \in ClassCompletions(c, y) : r.first_completion_for_class}
Rows(c) == {r \in completions : r.challenge = c}

\* C2: two participants of one class solving the decreasing challenge at the
\* same time end with exactly one row that is first for the class and has
\* positive points and one that is not and has 0 points (stated for the
\* runs without invalidation).
C2_OneFirstForClassUnderRace ==
    ninvalidations = 0 =>
        \A r1, r2 \in Rows("dec") :
            (r1.user # r2.user /\ r1.class_year = r2.class_year) =>
                /\ ~(r1.points_earned > 0 /\ r2.points_earned > 0)
                /\ r1.first_completion_for_class # r2.first_completion_for_class

\* C3: for every (challenge, class) with at least one row, exactly one row
\* is marked first for the class, and it is the row with the earliest
\* timestamp.
C3_ExactlyOneFirstForClass ==
    \A c \in Challenges, y \in Classes :
        ClassCompletions(c, y) # {} =>
            /\ Cardinality(FirstRows(c, y)) = 1
            /\ \A f \in FirstRows(c, y), r \in ClassCompletions(c, y) :
                   f.timestamp <= r.timestamp

\* C4: concurrent correct submissions from different classes for the
\* exclusive challenge leave the rows of one class only (stated for the
\* runs without invalidation), and the challenge locked once a row exists
\* and no request is in flight.
C4_ExclusiveSingleWinner ==
    ninvalidations = 0 =>
        /\ Cardinality({r.class_year : r \in Rows("exc")}) <= 1
        /\ (Rows("exc") # {} /\ \A w \in Workers : ~Busy(w)) => locked["exc"]

\* (u, c) is settled: u holds a row for c, c is in u's challenges_done, no
\* request of u for c is past the user_already_completed check and no
\* invalidation of u's completion of c is under way
Settled(u, c) ==
    /\ UserCompletions(u, c) # {}
    /\ c \in challenges_done[u]
    /\ \A w \in Workers :
           (Busy(w) /\ req[w].user = u /\ req[w].challenge = c) =>
               req[w].pc \in {"gate", "chk_user"}
    /\ inv.pc \in {"idle", "done"} \/ inv.user # u \/ inv.challenge # c

\* a statement of some validate_flag request
SubmitStep == req' # req

\* C5: once a participant's success for a challenge is settled, the later
\* submissions change nothing: under every validate_flag step the pair stays
\* settled, the ledger rows of the participant for the challenge and the
\* class totals are the same, and every answer to the participant for that
\* challenge carries 0 points.
C5_RetryIsNoOp ==
    [][\A u \in Users, c \in Challenges :
          (Settled(u, c) /\ SubmitStep) =>
              /\ Settled(u, c)'
              /\ UserCompletions(u, c)' = UserCompletions(u, c)
              /\ \A w \in Workers :
                     (req'[w] # req[w] /\ req'[w].user = u
                        /\ req'[w].challenge = c) =>
                         /\ completions' = completions
                         /\ \A y \in Classes : get_points(y)' = get_points(y)
                         /\ req'[w].pc = "done" => req'[w].points_awarded = 0
      ]_vars

\* a participant whose row carries points has been answered "success" with
\* 0 points for the same challenge
C5_Witness ==
    \E w \in Workers :
        /\ req[w].pc = "done"
        /\ req[w].result = "success"
        /\ req[w].points_awarded = 0
        /\ Settled(req[w].user, req[w].challenge)
        /\ \E r \in UserCompletions(req[w].user, req[w].challenge) :
               r.points_earned > 0

----------------------------------------------------------------------------
(* Properties of the scoring function (SpecPoints) *)

\* cp is the integer nearest to num/den (either neighbour on a tie), and 1
\* when that integer is below 1
NearestOrOne(cp, num, den) ==
    \/ cp = 1 /\ num - den <= den \div 2
    \/ /\ cp >= 1
       /\ IF den = 1 THEN cp = num
          ELSE cp * den - num <= den \div 2 /\ num - cp * den <= den \div 2

\* C6: the current value of a challenge that is not decreasing is its base
\* value; that of a decreasing challenge with base B and decay D after n
\* first completions is max(1, round(B * ((100 - D)/100)^n)): never below
\* 1, and 100, 80, 64 for B = 100, D = 20 and n = 0, 1, 2.
C6_CurrentPoints ==
    probe.kind = "points" =>
        LET b == probe.points
            d == probe.decay_percentage
            n == probe.classes_completed
            cp == probe.current_points
        IN  IF probe.challenge_type # "decreasing" THEN cp = b
            ELSE /\ cp >= 1
                 /\ NearestOrOne(cp, b * Pow(100 - d, n), Pow(100, n))
                 /\ (b = 100 /\ d = 20) =>
                        /\ n = 0 => cp = 100
                        /\ n = 1 => cp = 80
                        /\ n = 2 => cp = 64

\* the documented example after two classes
C6_Witness ==
    /\ probe.kind = "points"
    /\ probe.challenge_type = "decreasing"
    /\ probe.points = 100
    /\ probe.decay_percentage = 20
    /\ probe.classes_completed = 2
    /\ probe.current_points = 64

\* C7: for every base value and decay in 1..99 the current value does not
\* grow when one more class completes the challenge.
C7_DecayMonotone ==
    [][probe.kind = "points" =>
          probe'.current_points <= probe.current_points]_vars

\* a decreasing challenge whose value has gone down
C7_Witness ==
    /\ probe.kind = "points"
    /\ probe.challenge_type = "decreasing"
    /\ probe.classes_completed >= 1
    /\ probe.current_points < probe.points

----------------------------------------------------------------------------
(* Decay order under concurrency (SpecDec) *)

\* the earliest row of class y for challenge c
EarliestRow(c, y) ==
    CHOOSE r \in ClassCompletions(c, y) :
        \A x \in ClassCompletions(c, y) : r.timestamp <= x.timestamp

\* the classes whose first row for c was committed before that of class y
ClassesBefore(c, y) ==
    {z \in Classes \ {y} :
        /\ ClassCompletions(c, z) # {}
        /\ EarliestRow(c, z).timestamp < EarliestRow(c, y).timestamp}

\* every submission so far comes from a different class
DistinctClassesOnly ==
    \A i, j \in DOMAIN submissions :
        i # j => graduation_year[submissions[i].user]
                     # graduation_year[submissions[j].user]

\* C8: when participants of distinct classes solve the decreasing challenge,
\* the class whose first row is the k-th committed is awarded the value at
\* n = k - 1, so no two classes are awarded the value of the same n.
C8_AwardFollowsCommitOrder ==
    (ninvalidations = 0 /\ DistinctClassesOnly) =>
        \A y \in Classes :
            ClassCompletions("dec", y) # {} =>
                EarliestRow("dec", y).points_earned =
                    get_points_for_class(challenge_type["dec"], points["dec"],
                        decay_percentage["dec"],
                        Cardinality(ClassesBefore("dec", y)))

----------------------------------------------------------------------------
(* Properties of the availability function (SpecAvail) *)

\* the effective threshold of spec section 4.3
Threshold(k, m) == IF m = 0 \/ m >= k THEN k ELSE m

----------------------------------------------------------------------------
(* The gates of validate_flag (SpecGate) *)

\* the step is the arrival of a correct submission for a challenge whose
\* row is locked
ArrivesAtLocked(w) ==
    /\ ~Busy(w)
    /\ \E id \in (DOMAIN submissions') \ DOMAIN submissions :
           /\ submissions'[id].is_correct
           /\ req'[w].user = submissions'[id].user
           /\ req'[w].challenge = submissions'[id].challenge
           /\ locked[submissions'[id].challenge]

\* the step is the prerequisite lookup of a request whose class has not
\* completed enough prerequisites
PrerequisitesNotMet(w) ==
    /\ req[w].pc = "gate"
    /\ Cardinality(required_challenges[req[w].challenge]
                      \cap challenges_completed[req[w].class_year])
           < Threshold(Cardinality(required_challenges[req[w].challenge]),
                       required_challenges_count[req[w].challenge])

----------------------------------------------------------------------------
(* The answer to a conflicting submission *)

\* the request worker w answers in this step was graded correct
CorrectAnswer(w) ==
    IF Busy(w) THEN req[w].is_correct
    ELSE \E id \in (DOMAIN submissions') \ DOMAIN submissions :
             submissions'[id].is_correct

\* the request worker w answers in this step met a conflict: before the
\* step the participant already held a row for the challenge, or the
\* exclusive challenge was already locked
Conflict(w) ==
    \/ UserCompletions(req'[w].user, req'[w].challenge) # {}
    \/ is_exclusive(req'[w].challenge) /\ locked[req'[w].challenge]

\* C11: a correct submission that hits a conflict (the participant already
\* holds a completion row for the challenge, or the exclusive challenge is
\* already locked) is answered "rejected" with 0 points.
C11_ConflictIsRejected ==
    [][\A w \in Workers :
          (req'[w] # req[w] /\ req'[w].pc = "done" /\ CorrectAnswer(w)
              /\ Conflict(w)) =>
              /\ req'[w].result = "rejected"
              /\ req'[w].points_awarded = 0
      ]_vars

----------------------------------------------------------------------------
(* The prerequisite graph under administrator edits: ChallengeAdminForm     *)
(* (main/admin.py) validates the submitted fields of one challenge, and the *)
(* admin saves them when clean() raises nothing.  The Challenge table is    *)
(* the probe: the stored type, required_challenges and                     *)
(* required_challenges_count of every challenge.  The release fields of    *)
(* every edit are valid.                                                    *)

GraphChallenges == {"X", "Y", "Z"}

\* the types an edit chooses from: "normal" stands for the three types that
\* are not unlocking, which the form treats alike
GraphTypes == {"normal", "unlocking"}

\* the form offers every challenge except the edited one
RequiredChoices(challenge) == SUBSET (GraphChallenges \ {challenge})

\* the values of required_challenges_count an administrator enters
RequiredCounts == 0..(Cardinality(GraphChallenges) - 1)

\* the frames the recursion of would_create_cycle may use before the
\* interpreter raises RecursionError (1000 in CPython, scaled down: a chain of
\* distinct challenges uses at most one frame per challenge and one more)
RecursionLimit == 5

\* Challenge.Meta.ordering: the order in which a queryset lists challenges
GraphOrder == <<"X", "Y", "Z">>

\* list(queryset) of a set of challenges
list(S) == SelectSeq(GraphOrder, LAMBDA c : c \in S)

\* would_create_cycle of ChallengeAdminForm.clean, on the stored rows: the
\* requirements are visited in list order, the stored requirements of a
\* required challenge are followed only when that challenge is stored as
\* unlocking, and no challenge is remembered as visited.  depth is the
\* number of frames of the function in use; the answer is "True", "False",
\* or "RecursionError" when the call needs more frames than the limit
RECURSIVE would_create_cycle(_, _, _)
would_create_cycle(challenge, required_challenges_list, depth) ==
    IF depth > RecursionLimit THEN "RecursionError"
    ELSE IF required_challenges_list = <<>> THEN "False"
    ELSE LET req_challenge == Head(required_challenges_list)
             req_deps == probe.required_challenges[req_challenge]
             found ==
                 IF req_challenge = challenge THEN "True"
                 ELSE IF probe.challenge_type[req_challenge] # "unlocking"
                      THEN "False"
                 ELSE IF challenge \in req_deps THEN "True"
                 ELSE would_create_cycle(challenge, list(req_deps), depth + 1)
         IN  IF found = "False"
             THEN would_create_cycle(challenge,
                                     Tail(required_challenges_list), depth)
             ELSE found

\* ChallengeAdminForm.clean: "valid", "ValidationError", or the
\* "RecursionError" that escapes from would_create_cycle
clean(challenge, type, required, count) ==
    IF type # "unlocking" THEN "valid"
    ELSE LET cycle == IF required # {}
                      THEN would_create_cycle(challenge, list(required), 1)
                      ELSE "False"
         IN  IF cycle = "RecursionError" THEN "RecursionError"
             ELSE IF cycle = "True" THEN "ValidationError"
             ELSE IF count > 0 /\ (required = {} \/ count > Cardinality(required))
                  THEN "ValidationError"
             ELSE "valid"

\* ChallengeAdminForm.clean raises ValidationError
clean_raises(challenge, type, required, count) ==
    clean(challenge, type, required, count) = "ValidationError"

InitGraph ==
    /\ InitEngine
    /\ probe = [kind |-> "graph",
                challenge_type |-> [c \in GraphChallenges |-> "normal"],
                required_challenges |-> [c \in GraphChallenges |-> {}],
                required_challenges_count |-> [c \in GraphChallenges |-> 0],
                result |-> "none"]

\* the administrator submits the change form of a challenge: a rejected
\* form is shown again with its error and nothing is written, a valid one
\* is saved (the row, then the many-to-many set)
SaveChallenge(challenge, type, required, count) ==
    /\ probe.kind = "graph"
    /\ IF clean_raises(challenge, type, required, count)
       THEN probe' = [probe EXCEPT !.result = "invalid"]
       ELSE IF clean(challenge, type, required, count) = "RecursionError"
       THEN probe' = [probe EXCEPT !.result = "error"]
       ELSE probe' = [probe EXCEPT
                !.challenge_type[challenge] = type,
                !.required_challenges[challenge] = required,
                !.required_challenges_count[challenge] = count,
                !.result = "saved"]
    /\ UNCHANGED engine_vars

NextGraph ==
    \E challenge \in GraphChallenges, type \in GraphTypes,
       count \in RequiredCounts :
        \E required \in RequiredChoices(challenge) :
            SaveChallenge(challenge, type, required, count)

SpecGraph == InitGraph /\ [][NextGraph]_vars

\* the challenges reachable from the set S along the edges of g
RECURSIVE Closure(_, _)
Closure(g, S) ==
    LET T == S \cup UNION {g[c] : c \in S}
    IN  IF T = S THEN S ELSE Closure(g, T)

\* in the graph g, challenge a requires challenge b, directly or through a
\* chain of edges
Requires(g, a, b) == b \in Closure(g, g[a])

\* C12: an edit that makes challenge X require challenge Y when Y already
\* requires X, directly or through a chain, is rejected and leaves the
\* stored graph as it was: no step adds an edge X -> Y while Y requires X,
\* and a rejected edit changes no stored field.
C12_CycleEditRejected ==
    [][probe.kind = "graph" =>
          /\ \A x, y \in GraphChallenges :
                 (/\ y \in probe'.required_challenges[x]
                  /\ y \notin probe.required_challenges[x])
                     => ~Requires(probe.required_challenges, y, x)
          /\ probe'.result = "invalid" =>
                 /\ probe'.required_challenges = probe.required_challenges
                 /\ probe'.challenge_type = probe.challenge_type
      ]_vars

\* C13: the stored prerequisite graph is acyclic in every reachable state:
\* no challenge requires itself, directly or through a chain.
C13_GraphAcyclic ==
    probe.kind = "graph" =>
        \A c \in GraphChallenges :
            ~Requires(probe.required_challenges, c, c)

----------------------------------------------------------------------------
(* Properties of invalidation (SpecInv) *)

\* an invalidation call returns in this step
CallEnds == inv.pc \notin {"idle", "done"} /\ inv'.pc = "done"

\* no validate_flag request is being served
Quiet == \A w \in Workers : ~Busy(w)

\* some correct submission of u for c still carries points
LiveSubmission(u, c) ==
    \E id \in DOMAIN submissions :
        /\ submissions[id].user = u
        /\ submissions[id].challenge = c
        /\ submissions[id].is_correct
        /\ submissions[id].points_awarded > 0

\* the completion of c by u stands as a whole: personal set, row, class set
EntirelyBefore(u, c) ==
    /\ c \in challenges_done[u]
    /\ UserCompletions(u, c) # {}
    /\ c \in challenges_completed[graduation_year[u]]

\* the completion of c by u is reversed as a whole: personal set, row,
\* submission points, and the class set when no row of the class remains
EntirelyAfter(u, c) ==
    /\ c \notin challenges_done[u]
    /\ UserCompletions(u, c) = {}
    /\ ~LiveSubmission(u, c)
    /\ ClassCompletions(c, graduation_year[u]) = {}
           => c \notin challenges_completed[graduation_year[u]]

\* C14: invalidation is atomic: when a call returns (with success or with
\* an error raised by one of its steps) and no submission is being served,
\* the participant's completion is either entirely as before the call or
\* entirely reversed.
C14_InvalidationAtomic ==
    [][CallEnds =>
          (Quiet => (EntirelyBefore(inv.user, inv.challenge)
                       \/ EntirelyAfter(inv.user, inv.challenge)))'
      ]_vars


\* a statement of invalidate_submission (or of the submissions admin
\* action) runs in this step and does not raise
ReverseStep(from) == inv.pc = from /\ inv' # inv /\ inv'.result # "error"

\* C15: invalidating a class's only completion row of a challenge lowers the
\* class total by exactly the row's points_earned (the delete), removes the
\* challenge from the class's completed set (no row of the class is left)
\* and, for an exclusive challenge that is locked, sets locked to false; no
\* other class's total or completed set changes in any statement of the
\* call.
C15_SoleCompletionReversed ==
    [][LET u == inv.user
           c == inv.challenge
           y == inv.class_year
       IN  /\ ReverseStep("delete") =>
                  /\ \A z \in Classes :
                         get_points(z)' = get_points(z) -
                             SumPoints({r \in UserCompletions(u, c) :
                                           r.class_year = z})
                  /\ \A r \in UserCompletions(u, c) : r.class_year = y
                  /\ challenges_completed' = challenges_completed
                  /\ locked' = locked
           /\ ReverseStep("chk_class") =>
                  (ClassCompletions(c, y) = {} <=> inv'.pc = "rm_class")
           /\ ReverseStep("rm_class") =>
                  /\ challenges_completed' =
                         [challenges_completed EXCEPT ![y] = @ \ {c}]
                  /\ inv.deleted =>
                         ((is_exclusive(c) /\ locked[c])
                              <=> inv'.pc = "unlock")
                  /\ inv'.pc \in {"unlock", "mark"}
                  /\ completions' = completions
                  /\ locked' = locked
           /\ ReverseStep("unlock") =>
                  /\ locked' = [locked EXCEPT ![c] = FALSE]
                  /\ challenges_completed' = challenges_completed
                  /\ completions' = completions
      ]_vars

\* an invalidation call arrives in this step
CallBegins == inv.pc \in {"idle", "done"} /\ inv' # inv

\* the correct submissions of participant u for challenge c
CorrectSubmissions(u, c) ==
    {id \in DOMAIN submissions :
        /\ submissions[id].user = u
        /\ submissions[id].challenge = c
        /\ submissions[id].is_correct}

\* the submission id is the one behind a standing completion row of its
\* participant, and another row of the same class and challenge exists
BehindNonSoleCompletion(id) ==
    LET u == submissions[id].user
        c == submissions[id].challenge
    IN  /\ CorrectSubmissions(u, c) = {id}
        /\ ~submissions[id].invalidated
        /\ \A w \in Workers :
               ~(Busy(w) /\ req[w].user = u /\ req[w].challenge = c)
        /\ UserCompletions(u, c) # {}
        /\ c \in challenges_done[u]
        /\ \E x \in ClassCompletions(c, graduation_year[u]) : x.user # u

\* C16: invalidating a completion while another row of the same class and
\* challenge remains is carried out for every such completion, one that
\* earned 0 points included: the call is accepted, the class's completed
\* set and the locked flag stay as they are, and the submission's points
\* are zeroed.
C16_NonSoleCompletionReversed ==
    [][/\ \A id \in DOMAIN submissions :
              (CallBegins /\ inv'.submission = id
                  /\ BehindNonSoleCompletion(id)) => inv'.pc = "rm_user"
       /\ (ReverseStep("chk_class")
              /\ ClassCompletions(inv.challenge, inv.class_year) # {})
              => inv'.pc = "mark"
       /\ (ReverseStep("c_chk_class")
              /\ \E x \in ClassCompletions(inv.challenge, inv.class_year) :
                     x.timestamp # inv.completion)
              => inv'.pc = "c_zero"
       /\ (ReverseStep("mark") \/ ReverseStep("c_zero")) =>
              /\ challenges_completed' = challenges_completed
              /\ locked' = locked
              /\ \A id \in CorrectSubmissions(inv.user, inv.challenge) :
                     (inv.completion # 0 \/ id = inv.submission) =>
                         submissions'[id].points_awarded = 0
      ]_vars

\* the ledger fields an invalidation may write
ledger == <<challenges_done, challenges_completed, locked, completions,
            submissions>>

\* C17: invalidating a submission that does not exist or that was already
\* invalidated is answered with an error result and writes nothing, so
\* invalidating the same submission twice leaves the state of invalidating
\* it once.
C17_InvalidTargetIsNoOp ==
    [][(CallBegins /\ inv'.completion = 0
           /\ (inv'.submission \notin DOMAIN submissions
                 \/ submissions[inv'.submission].invalidated)) =>
              /\ inv'.pc = "done"
              /\ inv'.result \in {"not_found", "not_valid", "none_invalidated"}
              /\ UNCHANGED ledger
      ]_vars

\* the request was repeated for a submission already invalidated and was
\* refused
C17_Witness ==
    /\ inv.pc = "done"
    /\ inv.result = "not_valid"
    /\ inv.submission \in DOMAIN submissions
    /\ submissions[inv.submission].invalidated
    /\ submissions[inv.submission].points_awarded = 0
    /\ Quiet
    /\ UserCompletions(submissions[inv.submission].user,
                       submissions[inv.submission].challenge) = {}

\* C18: after a successful invalidation by any entry point the originating
\* submission row is still there with 0 points, invalidated = true, and the
\* actor and time of the invalidation; no step removes a submission row.
C18_SubmissionKeptAndMarked ==
    [][/\ DOMAIN submissions \subseteq DOMAIN submissions'
       /\ (CallEnds /\ inv'.result = "success") =>
              \E id \in CorrectSubmissions(inv.user, inv.challenge) :
                  /\ inv.completion = 0 => id = inv.submission
                  /\ submissions'[id].points_awarded = 0
                  /\ submissions'[id].invalidated
                  /\ submissions'[id].invalidated_by # "none"
                  /\ submissions'[id].invalidated_at > 0
      ]_vars


-----------------------------------------------------------------------------
(* The first-solve notification *)

\* the ChallengeCompletion row of request r among rows
CompletionOf(r, rows) ==
    {x \in rows :
        /\ x.user = r.user
        /\ x.challenge = r.challenge
        /\ x.class_year = r.class_year
        /\ x.points_earned = r.points_awarded
        /\ x.first_completion_for_class = r.first_for_class}

\* C19: the first-solve notification is attempted only for a completion
\* with first_for_class true and only in the request that has stored its
\* ChallengeCompletion row; whatever the webhook call comes to, the request
\* is answered "success" with the points it awarded, and the row, the
\* completed sets and the locked flags are those the insert left.
C19_NotificationNeverAffectsAward ==
    [][\A w \in Workers :
          /\ (req'[w] # req[w] /\ req'[w].notified) =>
                 /\ req[w].pc = "insert"
                 /\ req[w].first_for_class
                 /\ CompletionOf(req[w], completions) = {}
                 /\ CompletionOf(req[w], completions') # {}
                 /\ req'[w] = [Response(req[w], "success",
                                        req[w].points_awarded)
                                   EXCEPT !.notified = TRUE]
                 /\ req[w].points_awarded > 0
                 /\ completions' =
                        completions \cup CompletionOf(req[w], completions')
                 /\ UNCHANGED <<challenges_done, challenges_completed,
                                locked, submissions>>
          /\ (req[w].pc = "insert" /\ req'[w].pc = "done") =>
                 /\ req'[w].result = "success"
                 /\ req'[w].notified = req[w].first_for_class
      ]_vars

\* a first solve has been answered after its notification was attempted,
\* and its row is stored
C19_Witness ==
    \E w \in Workers :
        /\ req[w].pc = "done"
        /\ req[w].notified
        /\ req[w].result = "success"
        /\ \E x \in UserCompletions(req[w].user, req[w].challenge) :
               /\ x.first_completion_for_class
               /\ x.points_earned = req[w].points_awarded


-----------------------------------------------------------------------------
(* Incorrect submissions *)

\* the submitted text differs from the challenge's flag once both are trimmed
\* and lowercased
Incorrect(text, c) == lower(strip(text)) # lower(strip(flag[c]))

-----------------------------------------------------------------------------
(* Storage errors in the award sequence *)

\* C21: when a statement of the award sequence raises, the request is
\* answered with an error and nothing of the award is left behind: the
\* challenge is in the participant's set only if the participant has a
\* ChallengeCompletion row, in the class's set only if the class has one,
\* and locked only if some row of the challenge exists.
C21_NoPartialAward ==
    [][\A w \in Workers :
          (Busy(w) /\ req'[w].pc = "done" /\ req'[w].result = "error") =>
              LET u == req[w].user
                  c == req[w].challenge
                  y == req[w].class_year
              IN  /\ c \in challenges_done'[u] =>
                         UserCompletions(u, c)' # {}
                  /\ c \in challenges_completed'[y] =>
                         ClassCompletions(c, y)' # {}
                  /\ locked'[c] =>
                         \E x \in completions' : x.challenge = c
      ]_vars


-----------------------------------------------------------------------------
(* Who scores within a class *)

\* C22: only the first solver of a class scores.  Every row that is not
\* first for its class has 0 points; a request computes its points as the
\* current value it reads if it found no row of its class and 0 otherwise,
\* and the row it stores carries exactly these points and this mark; a
\* solver who comes after another participant of the class still gets a
\* row, with the challenge in their own completed set.
C22_OnlyFirstSolverScores ==
    [][/\ \A x \in completions' :
              ~x.first_completion_for_class => x.points_earned = 0
       /\ \A w \in Workers :
              LET u == req[w].user
                  c == req[w].challenge
              IN
              /\ (req[w].pc = "points" /\ req'[w] # req[w]) =>
                     req'[w].points_awarded =
                         IF req[w].first_for_class
                         THEN get_current_points(c) ELSE 0
              /\ (req[w].pc = "chk_class" /\ req'[w].pc = "save_sub") =>
                     req'[w].points_awarded =
                         IF req'[w].first_for_class THEN points[c] ELSE 0
              /\ (req[w].pc = "chk_class" /\ req'[w] # req[w]) =>
                     req'[w].first_for_class =
                         (ClassCompletions(c, req[w].class_year) = {})
              /\ (req[w].pc \in {"insert", "fallback"}
                    /\ req'[w].pc = "done" /\ req'[w].result = "success") =>
                     \E x \in completions' :
                         /\ x.user = u
                         /\ x.challenge = c
                         /\ x.first_completion_for_class =
                                req[w].first_for_class
                         /\ x.points_earned = req[w].points_awarded
                         /\ req'[w].points_awarded = x.points_earned
                         /\ (/\ ~x.first_completion_for_class
                             /\ \E z \in completions' :
                                    /\ z.challenge = c
                                    /\ z.class_year = x.class_year
                                    /\ z.user # u) =>
                                c \in challenges_done'[u]
      ]_vars


-----------------------------------------------------------------------------
(* The hunt-end notification: check_and_notify_hunt_end, called by the      *)
(* context processor on page requests, and the check_hunt_end command run   *)
(* without --force and --reset.  Both test the lock file, test whether the  *)
(* hunt is active, call send_hunt_end_notification and then write the lock  *)
(* file.                                                                    *)

Pages == {"page1", "page2"}
Commands == {"command"}
Callers == Pages \cup Commands

\* the hunt is active, the lock file does not exist, nobody has called
InitHuntEnd ==
    /\ InitEngine
    /\ probe = [kind |-> "hunt_end", hunt_active |-> TRUE, lock_file |-> FALSE,
                invoked |-> 0, pc |-> [p \in Callers |-> "idle"]]

\* the end time of the hunt passes
HuntEnds ==
    /\ probe.kind = "hunt_end"
    /\ probe.hunt_active
    /\ probe' = [probe EXCEPT !.hunt_active = FALSE]
    /\ UNCHANGED engine_vars

\* if os.path.exists(lock_file_path): return
CheckLock(p) ==
    /\ probe.kind = "hunt_end"
    /\ probe.pc[p] \in {"idle", "returned"}
    /\ probe' = [probe EXCEPT !.pc[p] =
           IF probe.lock_file THEN "returned" ELSE "chk_active"]
    /\ UNCHANGED engine_vars

\* if is_hunt_active(): return
CheckActive(p) ==
    /\ probe.kind = "hunt_end"
    /\ probe.pc[p] = "chk_active"
    /\ probe' = [probe EXCEPT !.pc[p] =
           IF probe.hunt_active THEN "returned" ELSE "send"]
    /\ UNCHANGED engine_vars

\* send_hunt_end_notification()
SendHuntEnd(p) ==
    /\ probe.kind = "hunt_end"
    /\ probe.pc[p] = "send"
    /\ probe' = [probe EXCEPT !.invoked = @ + 1, !.pc[p] = "write"]
    /\ UNCHANGED engine_vars

\* with open(lock_file_path, "w") as f: f.write(...)
WriteLock(p) ==
    /\ probe.kind = "hunt_end"
    /\ probe.pc[p] = "write"
    /\ probe' = [probe EXCEPT !.lock_file = TRUE, !.pc[p] = "sent"]
    /\ UNCHANGED engine_vars

\* a page request runs a statement of check_and_notify_hunt_end
check_and_notify_hunt_end ==
    \E p \in Pages :
        CheckLock(p) \/ CheckActive(p) \/ SendHuntEnd(p) \/ WriteLock(p)

\* a run of the check_hunt_end command executes a statement of handle
handle ==
    \E p \in Commands :
        CheckLock(p) \/ CheckActive(p) \/ SendHuntEnd(p) \/ WriteLock(p)

NextHuntEnd == HuntEnds \/ check_and_notify_hunt_end \/ handle

SpecHuntEnd == InitHuntEnd /\ [][NextHuntEnd]_vars

\* C23: send_hunt_end_notification is invoked at most once, whatever the
\* interleaving of page requests and runs of the command after the hunt has
\* ended (the lock file is never reset here).
C23_HuntEndNotifiedOnce ==
    probe.kind = "hunt_end" => probe.invoked <= 1

----------------------------------------------------------------------------
(* Two administrators editing challenges at the same time.  The admin      *)
(* validates the form against the stored rows (ChallengeAdminForm.clean)   *)
(* and writes the row and its required_challenges afterwards: the reads of *)
(* one request and the writes of another are not ordered by anything.      *)

Admins == {"a1", "a2"}

\* required_challenges_count is left at 0 in these edits
NoForm == [pc |-> "idle", result |-> "none"]

InitEdit ==
    /\ InitEngine
    /\ probe = [kind |-> "edit",
                challenge_type |-> [c \in GraphChallenges |-> "normal"],
                required_challenges |-> [c \in GraphChallenges |-> {}],
                form |-> [a \in Admins |-> NoForm]]

\* the administrator a posts the change form of a challenge and the form is
\* validated: a ValidationError shows the form again, a RecursionError is
\* answered with a server error, a valid form goes on to be saved
Clean(a, challenge, type, required) ==
    /\ probe.kind = "edit"
    /\ probe.form[a].pc = "idle"
    /\ LET outcome == clean(challenge, type, required, 0)
       IN  probe' = [probe EXCEPT !.form[a] =
               IF outcome = "valid"
               THEN [pc |-> "save", result |-> "none",
                     challenge |-> challenge, type |-> type,
                     required |-> required]
               ELSE [pc |-> "idle",
                     result |-> IF outcome = "ValidationError"
                                THEN "invalid" ELSE "error"]]
    /\ UNCHANGED engine_vars

\* save_model and save_related of the valid form
SaveForm(a) ==
    /\ probe.kind = "edit"
    /\ probe.form[a].pc = "save"
    /\ LET f == probe.form[a]
       IN  probe' = [probe EXCEPT
               !.challenge_type[f.challenge] = f.type,
               !.required_challenges[f.challenge] = f.required,
               !.form[a] = [pc |-> "idle", result |-> "saved"]]
    /\ UNCHANGED engine_vars

NextEdit ==
    \E a \in Admins :
        \/ \E challenge \in GraphChallenges, type \in GraphTypes :
               \E required \in RequiredChoices(challenge) :
                   Clean(a, challenge, type, required)
        \/ SaveForm(a)

SpecEdit == InitEdit /\ [][NextEdit]_vars

\* C24: the cycle check of an edit ends with a yes/no answer for every
\* stored graph and every proposed list, a stored cycle among other
\* challenges included: no edit request ends in the RecursionError of a
\* recursion that found no end.
C24_CycleCheckTerminates ==
    probe.kind = "edit" =>
        \A a \in Admins : probe.form[a].result # "error"

----------------------------------------------------------------------------
(* Immutability of completion rows *)

\* C25: a completion row is never modified after its insert: in every step,
\* a row that stays in the table (same participant, challenge and insert
\* time) keeps its class_year, points_earned and first_completion_for_class.
C25_CompletionNeverModified ==
    [][\A x \in completions : \A y \in completions' :
          (/\ x.user = y.user
           /\ x.challenge = y.challenge
           /\ x.timestamp = y.timestamp) => x = y
      ]_vars

----------------------------------------------------------------------------
(* Consistency of the stored state when nothing is in progress *)

\* no invalidation call is in progress
InvQuiet == inv.pc \in {"idle", "done"}

\* C26: when no submit or invalidate call is in progress, the membership
\* sets agree with the ledger: a challenge is in a participant's
\* challenges_done exactly if the participant holds a completion row for
\* it, and in a class's challenges_completed exactly if some row of the
\* challenge carries that class.
C26_MembershipAgreesWithLedger ==
    (Quiet /\ InvQuiet) =>
        \A c \in Challenges :
            /\ \A u \in Users :
                   c \in challenges_done[u] <=> UserCompletions(u, c) # {}
            /\ \A y \in Classes :
                   c \in challenges_completed[y]
                       <=> ClassCompletions(c, y) # {}


\* C27: when no call is in progress a challenge is locked exactly if it is
\* exclusive and some completion row of it exists; a challenge that is not
\* exclusive is never locked; and no step of an invalidation unlocks an
\* exclusive challenge of which some class still holds a completion row.
C27_LockedIffExclusiveAndSolved ==
    /\ [](\A c \in Challenges :
            /\ ~is_exclusive(c) => ~locked[c]
            /\ (Quiet /\ InvQuiet) =>
                   (locked[c] <=>
                       (/\ is_exclusive(c)
                        /\ \E r \in completions : r.challenge = c)))
    /\ [][\A c \in Challenges :
             (is_exclusive(c) /\ locked[c] /\ ~locked'[c]) =>
                 ~\E r \in completions' : r.challenge = c
         ]_vars

----------------------------------------------------------------------------
(* The count n behind the value of a decreasing challenge *)

\* the classes that hold at least one completion row of the challenge
ClassesHolding(c) == {y \in Classes : ClassCompletions(c, y) # {}}

\* the values a decreasing challenge takes for the counts n it can reach
ValueAt(c, n) ==
    get_points_for_class(challenge_type[c], points[c], decay_percentage[c], n)

\* C28: for a decreasing challenge, the count n used by get_current_points
\* is the number of distinct classes holding at least one completion row;
\* while no invalidation has happened, get_current_points never increases;
\* and two classes that both hold rows were never awarded the value of the
\* same n.
C28_CountIsClassesHolding ==
    /\ [](\A c \in Challenges : is_decreasing(c) =>
            /\ completed_classes_count(c) = Cardinality(ClassesHolding(c))
            /\ \A y, z \in ClassesHolding(c) :
                   y # z =>
                       ~\E n \in 0..Cardinality(Classes) :
                            /\ EarliestRow(c, y).points_earned = ValueAt(c, n)
                            /\ EarliestRow(c, z).points_earned = ValueAt(c, n))
    /\ [][\A c \in Challenges :
             (is_decreasing(c) /\ ninvalidations' = 0) =>
                 get_current_points(c)' <= get_current_points(c)
         ]_vars

----------------------------------------------------------------------------
(* Submitting again after an invalidation *)

\* a submission of u for c was invalidated, u holds no completion row of c,
\* and nothing else is going on around c: no invalidation call is in
\* progress and no request other than w's is working on c
AfterInvalidation(w, u, c) ==
    /\ InvQuiet
    /\ \E id \in DOMAIN submissions :
           /\ submissions[id].user = u
           /\ submissions[id].challenge = c
           /\ submissions[id].invalidated
    /\ UserCompletions(u, c) = {}
    /\ \A v \in Workers \ {w} : Busy(v) => req[v].challenge # c

----------------------------------------------------------------------------
(* A solver whose class changes: switch_user_class (logging/views.py) lets  *)
(* a staff or committee account set its own graduation_year, and            *)
(* validate_flag accepts the submissions of staff accounts.                 *)

\* the accounts with is_staff set
StaffUsers == {"u1"}

\* switch_user_class: request.user.graduation_year = int(cls.year);
\* request.user.save(update_fields=["graduation_year"])
switch_user_class(u, year) ==
    /\ u \in StaffUsers
    /\ year \in Classes
    /\ graduation_year' = [graduation_year EXCEPT ![u] = year]
    /\ UNCHANGED <<probe, challenges_done, challenges_completed, locked,
                   completions, submissions, clock, req, nsubmits, inv,
                   ninvalidations>>

\* a staff account solves the decreasing challenge, switches class, and its
\* submission is invalidated
NextSwitch ==
    \/ SubmitFlag(StaffUsers, {"dec"})
    \/ \E w \in Workers : Award(w) \/ Points(w)
    \/ \E u \in StaffUsers, year \in Classes : switch_user_class(u, year)
    \/ Invalidate
    \/ Reverse

SpecSwitch == Init /\ [][NextSwitch]_vars

\* C30: an invalidation reverses the class recorded on the completion row,
\* also when switch_user_class changed the participant's class in between:
\* the class whose challenges_completed the invalidation examines is the
\* class_year of the row it deletes, and no step of the invalidation
\* changes the challenges_completed of any other class.
C30_InvalidationReversesRecordedClass ==
    [][inv.pc \notin {"idle", "done"} =>
          /\ \A x \in completions \ completions' :
                 x.class_year = inv.class_year
          /\ \A y \in Classes :
                 (/\ inv'.pc # inv.pc
                  /\ challenges_completed'[y] # challenges_completed[y]) =>
                     y = inv.class_year
      ]_vars

=============================================================================
